---- MODULE Spec2Model ----
(***************************************************************************)
(* Model of the completion-ring engine of accounts-db/src/ring/ring.rs     *)
(* (Ring, RingCtx, RingOp) driven by one thread, together with the kernel  *)
(* side of the queue pair it talks to and the hard-link client of          *)
(* accounts-db/src/ring/ring_hard_linker.rs.                               *)
(*                                                                         *)
(* The program is a call stack of frames; every step of a function (a loop *)
(* iteration, a match arm, a return) is one action.  The kernel completes  *)
(* accepted descriptors concurrently, in any order.                        *)
(***************************************************************************)
EXTENDS Integers, Sequences, FiniteSets, TLC

\* Bounds of the model: operations created under Spec, operations created under
\* the specifications that make fewer kinds of calls, operations created on
\* the default ring, depth of the submission queue, kernel calls that fail.
MaxOps == 3
MaxOpsLong == 4
MaxOpsNested == 5
MaxOpsResult == 1
RawBits == 8
MaxSamples == 2
MaxTicks == 3
SqDepth == 1
MaxFaults == 1
\* scan_file: the bytes of an entry, of the longest stream, and the largest
\* num_entries_expected.
EntrySize == 2
MaxBytes == 6
MaxExpected == 4
\* do_diff_dirs: the files of a directory and the largest slot.
MaxFiles == 2
MaxSlot == 1
\* Ring::new takes a ring of any geometry: the model's has a completion queue
\* as deep as its submission queue, the shallowest the kernel builds.
CqDepth == SqDepth
\* RingHardLinker::new builds its ring without a completion queue size: the
\* kernel makes the completion queue twice as deep as the submission queue.
CqDepthDefault == 2 * SqDepth

\* OS error codes named by the engine.
EBUSY == 16
EINTR == 4
ETIME == 62
\* submit_interval of the two histograms, in minutes.
MinuteInterval == 1
HourInterval == 60

\* A faulty engine whose submit loop has no arm for EINTR: the code falls to
\* the arm that returns it.
FatalCodesNoIntrArm == {9, EINTR}
\* An error code of a kernel call that is none of the codes the engine names:
\* what reaches the arm Err(e) => return Err(e).
FatalCodes == {9}
\* Raw results of a completed linkat: success, and -ENOENT.
OkResults == {0}
ErrResults == {-2}
\* Arguments of submit_and_wait.
WantValues == {0, 1}
\* What a caller passes for a directory where the client takes impl AsRawFd:
\* a descriptor it gives away (File, OwnedFd by value), or one it keeps
\* (&File, BorrowedFd, RawFd).
FdArgs == {"moved", "kept"}
\* Operation variants: the hard-link operation of the repository, and an
\* operation whose callback pushes one follow-up through the context.
Kinds == {"HardLink", "Chain"}

VARIABLES
    entries,    \* Ring.entries: the slab of in-flight operations
    sq,         \* submission ring: descriptors pushed and not yet taken by the kernel
    sqPub,      \* how many descriptors of sq the shared tail shows to the kernel
    cq,         \* completion ring from the shared head to the shared tail
    overflow,   \* completions the kernel holds back because the ring is full
    inflight,   \* descriptors the kernel has accepted and not completed
    ctxPopped,  \* RingCtx.completion: entries of cq popped, head not yet stored
    ctxTail,    \* RingCtx.completion: entries of cq its cached tail shows
    stack,      \* call stack of the driving thread, innermost frame last
    ret,        \* value returned by the frame that has just returned
    ops,        \* every operation created so far, by id, with its history
    lastRet,    \* what the last engine call returned to its caller
    busySeen,   \* the current engine call has met EBUSY
    faults,     \* kernel calls that failed with a code of FatalCodes
    drainMark,  \* operations created before the current drain call
    drained,    \* operations created before a drain call that returned Ok
    panicked,   \* Slab::remove met a vacant key, or a negation overflowed
    cqEntries   \* ring.params().cq_entries(): depth of the completion ring

\* LoadAccountsHistogram and the threads that call it.
VARIABLES
    now,            \* Instant::now(), in units of the clock
    histogram,      \* Inner.histogram of each histogram: the samples it holds
    previousSubmit, \* Inner.previous_submit of each histogram
    submitLock,     \* who holds the write lock of previous_submit
    thread,         \* position of each thread in record or maybe_submit
    samples,        \* samples passed to record so far
    recorded,       \* samples each histogram has been incremented with
    counted,        \* how many datapoints of each histogram held each sample
    datapoint       \* the last datapoint each histogram submitted

\* The hard-link client's request, and the accounts-hash-cache tool.
VARIABLES
    request,        \* the paths of the hard link the client was last asked for
    scan,           \* scan_file: its reader, its arguments and its locals
    diff            \* do_diff_dirs: the two sorted lists and the locals

histVars == <<now, histogram, previousSubmit, submitLock, thread, samples,
              recorded, counted, datapoint>>

otherVars == <<histVars, scan, diff>>

vars == <<entries, sq, sqPub, cq, overflow, inflight, ctxPopped, ctxTail, stack,
          ret, ops, lastRet, busySeen, faults, drainMark, drained, panicked, cqEntries, request, otherVars>>

ringVars == <<entries, sq, sqPub, cq, overflow, inflight, ctxPopped, ctxTail,
              stack, ret, ops, lastRet, busySeen, faults, drainMark, drained,
              panicked, cqEntries, request>>
kernelVars == <<sq, sqPub, cq, overflow, inflight>>
ctxVars == <<ctxPopped, ctxTail>>

Min(a, b) == IF a < b THEN a ELSE b

----------------------------------------------------------------------------
\* io::Result values.  src tells a kernel call's error from an operation's.
NoRet == [t |-> "None", v |-> 0, src |-> "none"]
OkRet(n) == [t |-> "Ok", v |-> n, src |-> "none"]
OkNone == [t |-> "OkNone", v |-> 0, src |-> "none"]
ErrKernel(code) == [t |-> "Err", v |-> code, src |-> "kernel"]
ErrOp(code) == [t |-> "Err", v |-> code, src |-> "op"]
IsErr(r) == r.t = "Err"
NoCall == [api |-> "none", ret |-> NoRet]

\* A faulty translation that forgets to negate the raw result.
ResultNotNegated(res) == IF res < 0 THEN ErrOp(res) ELSE OkRet(res)
\* The raw result of a completion is a signed integer of RawBits bits (i32 in
\* the code): its range, and the value an arithmetic result wraps to.
MinRaw == -(2 ^ (RawBits - 1))
MaxRaw == 2 ^ (RawBits - 1) - 1
RawResults == MinRaw..MaxRaw
Wrap(x) == ((x - MinRaw) % (2 ^ RawBits)) + MinRaw
\* -res does not fit: a build with overflow checks panics there, a build
\* without them wraps.
NegOverflows(res) == -res > MaxRaw
\* RingOp::result
Result(res) == IF res < 0 THEN ErrOp(Wrap(-res)) ELSE OkRet(res)

----------------------------------------------------------------------------
\* slab::Slab, as the engine uses it.
EmptySlab == [slots |-> <<>>, next |-> 0]
\* A faulty table that hands out its first slot whatever it holds.
SlabVacantKeyFirstSlot(s) == 0
SlabVacantKey(s) == s.next
SlabInsert(s, op) ==
    LET key == SlabVacantKey(s) IN
    IF key = Len(s.slots)
    THEN [slots |-> Append(s.slots, [occ |-> TRUE, v |-> op]), next |-> key + 1]
    ELSE [slots |-> [s.slots EXCEPT ![key + 1] = [occ |-> TRUE, v |-> op]],
          next |-> s.slots[key + 1].v]
SlabContains(s, key) == key < Len(s.slots) /\ s.slots[key + 1].occ
SlabGet(s, key) == s.slots[key + 1].v
SlabRemove(s, key) ==
    [slots |-> [s.slots EXCEPT ![key + 1] = [occ |-> FALSE, v |-> s.next]],
     next |-> key]
SlabKeys(s) == {i - 1 : i \in {j \in 1..Len(s.slots) : s.slots[j].occ}}
\* A faulty emptiness test that looks at the head of the free list.
SlabIsEmptyByNext(s) == s.next = 0
SlabIsEmpty(s) == SlabKeys(s) = {}

----------------------------------------------------------------------------
\* Frames of the call stack.
Frame(f, pc, op, outer, want, timed, res) ==
    [f |-> f, pc |-> pc, op |-> op, outer |-> outer, want |-> want,
     timed |-> timed, res |-> res]
F(f, pc) == Frame(f, pc, 0, FALSE, 0, FALSE, NoRet)
FOp(f, pc, op) == Frame(f, pc, op, FALSE, 0, FALSE, NoRet)
Top == stack[Len(stack)]
Pop(s) == SubSeq(s, 1, Len(s) - 1)
SetPc(pc) == [stack EXCEPT ![Len(stack)].pc = pc]
Idle == stack = <<>> /\ ~panicked
Running(f, pc) == ~panicked /\ stack # <<>> /\ Top.f = f /\ Top.pc = pc

\* The top frame returns r to its caller: to the frame below, or to the
\* caller of the engine.
Return(r) ==
    /\ stack' = Pop(stack)
    /\ IF Len(stack) = 1
       THEN lastRet' = [api |-> Top.f, ret |-> r] /\ ret' = NoRet
       ELSE lastRet' = lastRet /\ ret' = r

\* A function calls another: its frame waits, the callee's frame is pushed.
Call(waitPc, callee) ==
    /\ stack' = Append(SetPc(waitPc), callee)
    /\ ret' = NoRet
    /\ lastRet' = lastRet

\* The caller of the engine starts a call.
Enter(frames) ==
    /\ Idle
    /\ stack' = frames
    /\ ret' = NoRet
    /\ lastRet' = NoCall
    /\ busySeen' = FALSE

----------------------------------------------------------------------------
\* Operations and their histories.
NewOp(kind, follow, key) ==
    [kind |-> kind, follow |-> follow, key |-> key, pushRet |-> "run",
     acc |-> FALSE, kres |-> <<>>, rank |-> 0, done |-> 0, fd |-> "open"]
\* Follow-ups that operations created and not yet completed may still push.
Reserved == Cardinality({i \in DOMAIN ops : ops[i].kind = "Chain" /\ ops[i].done = 0})
Need(kind) == IF kind = "Chain" THEN 2 ELSE 1
DescriptorUntagged(key, op) == [tag |-> 0, op |-> op]
Descriptor(key, op) == [tag |-> key, op |-> op]

----------------------------------------------------------------------------
\* The kernel side of io_uring_enter.  Entering first moves held-back
\* completions into the ring as far as the shared head leaves room; with
\* descriptors to take and completions still held back it answers EBUSY.
FlushCount == Min(Len(overflow), cqEntries - Len(cq))
CqFlushed == cq \o SubSeq(overflow, 1, FlushCount)
OvFlushed == SubSeq(overflow, FlushCount + 1, Len(overflow))
KernelBusy(n) == n > 0 /\ OvFlushed # <<>>

\* The kernel takes the first n descriptors of the submission ring.
KernelAccept(n) ==
    /\ inflight' = inflight \cup {sq[i] : i \in 1..n}
    /\ sq' = SubSeq(sq, n + 1, Len(sq))
    /\ cq' = CqFlushed
    /\ overflow' = OvFlushed
    /\ ops' = [i \in DOMAIN ops |->
                 IF \E j \in 1..n : sq[j].op = i
                 THEN [ops[i] EXCEPT !.acc = TRUE] ELSE ops[i]]

\* The kernel answers EBUSY: nothing is taken.
KernelRefuse ==
    /\ cq' = CqFlushed
    /\ overflow' = OvFlushed
    /\ UNCHANGED <<sq, inflight, ops>>

\* Completions the kernel has posted whose callback has not been invoked.
Posted == Cardinality({i \in DOMAIN ops : ops[i].rank > 0})

\* The kernel posts the completion of an accepted descriptor; the operation's
\* rank is the place of its completion among those posted and not delivered.
KernelPost(d, res) ==
    /\ ~panicked
    /\ d \in inflight
    /\ inflight' = inflight \ {d}
    /\ LET cqe == [tag |-> d.tag, op |-> d.op, res |-> res] IN
       IF overflow = <<>> /\ Len(cq) < cqEntries
       THEN cq' = Append(cq, cqe) /\ overflow' = overflow
       ELSE overflow' = Append(overflow, cqe) /\ cq' = cq
    /\ ops' = [ops EXCEPT ![d.op].kres = <<res>>, ![d.op].rank = 1 + Posted]
    /\ UNCHANGED <<entries, sq, sqPub, ctxVars, stack, ret, lastRet, busySeen,
                   faults, drainMark, drained, panicked, cqEntries, request, otherVars>>

KernelCompleteOk == \E d \in inflight : \E res \in OkResults : KernelPost(d, res)
KernelCompleteErr == \E d \in inflight : \E res \in ErrResults : KernelPost(d, res)
\* The kernel posts a completion with any raw result.
KernelCompleteAny == \E d \in inflight : \E res \in RawResults : KernelPost(d, res)

\* A faulty error arm that goes round the loop instead of returning.
FatalRetried(code) ==
    /\ faults < MaxFaults
    /\ faults' = faults + 1
    /\ UNCHANGED <<stack, ret, lastRet>>

\* A kernel call fails with a code the engine does not retry.
Fatal(code) ==
    /\ faults < MaxFaults
    /\ faults' = faults + 1
    /\ Return(ErrKernel(code))

----------------------------------------------------------------------------
\* LoadAccountsHistogram::new: both histograms empty, previous_submit now.
Hists == {"1_minute", "1_hour"}
Threads == {"t1", "t2"}
SampleIds == 1..MaxSamples
ThreadIdle == [pc |-> "idle", h |-> "none", sample |-> 0, dur |-> 0]
NoDatapoint == [emitted |-> FALSE, duration |-> 0]
InitHistogram ==
    /\ now = 0
    /\ histogram = [h \in Hists |-> {}]
    /\ previousSubmit = [h \in Hists |-> 0]
    /\ submitLock = [h \in Hists |-> "free"]
    /\ thread = [t \in Threads |-> ThreadIdle]
    /\ samples = 0
    /\ recorded = [h \in Hists |-> {}]
    /\ counted = [h \in Hists |-> [s \in SampleIds |-> 0]]
    /\ datapoint = [h \in Hists |-> NoDatapoint]

\* What a hard-link request is built from: each path is absolute or not, and
\* holds an interior NUL byte or not.
Paths == [absolute : BOOLEAN, nul : BOOLEAN]
Requests == [api : {"hard_link_abs", "hard_link_rel"}, old : Paths, new : Paths]
NoRequest == [api |-> "none"]

\* scan_file and do_diff_dirs before they are called.
ScanIdle == [pc |-> "idle"]
DiffIdle == [pc |-> "idle"]

InitEngine(depth) ==
    /\ entries = EmptySlab
    /\ sq = <<>>
    /\ sqPub = 0
    /\ cq = <<>>
    /\ overflow = <<>>
    /\ inflight = {}
    /\ ctxPopped = 0
    /\ ctxTail = 0
    /\ stack = <<>>
    /\ ret = NoRet
    /\ ops = <<>>
    /\ lastRet = NoCall
    /\ busySeen = FALSE
    /\ faults = 0
    /\ drainMark = 0
    /\ drained = 0
    /\ panicked = FALSE
    /\ cqEntries = depth
    /\ request = NoRequest

InitRing(depth) ==
    /\ InitEngine(depth)
    /\ InitHistogram
    /\ scan = ScanIdle
    /\ diff = DiffIdle

\* Ring::new on a ring whose completion queue is as deep as its submission
\* queue.
Init == InitRing(CqDepth)

\* Ring::new on the ring RingHardLinker::new builds.
InitDefaultRing == InitRing(CqDepthDefault)

----------------------------------------------------------------------------
\* Ring::push

\* let entry = op.entry(); let key = self.entries.insert(op);
PushOp(kind, max) ==
    /\ Len(ops) + Reserved + Need(kind) <= max
    /\ Enter(<<FOp("push", "try", Len(ops) + 1)>>)
    /\ ops' = Append(ops, NewOp(kind, FALSE, SlabVacantKey(entries)))
    /\ entries' = SlabInsert(entries, Len(ops) + 1)
    /\ UNCHANGED <<kernelVars, ctxVars, faults, drainMark, drained, panicked, cqEntries, request, otherVars>>

\* HardLinkOp::new keeps old_dir_fd.as_raw_fd() and new_dir_fd.as_raw_fd(): the
\* numbers.  An argument that was moved in is dropped when new returns, which
\* closes the descriptor; one the caller kept stays open.
FdAfterNew(arg) == IF arg = "moved" THEN "closed" ELSE "open"

\* RingHardLinker::submit with the directory argument it is given:
\* HardLinkOp::new(..)?, then unsafe { self.ring.push(op)? }
CallSubmitLink ==
    \E arg \in FdArgs :
    /\ Len(ops) < MaxOpsLong
    /\ Enter(<<FOp("push", "try", Len(ops) + 1)>>)
    /\ ops' = Append(ops, [NewOp("HardLink", FALSE, SlabVacantKey(entries))
                              EXCEPT !.fd = FdAfterNew(arg)])
    /\ entries' = SlabInsert(entries, Len(ops) + 1)
    /\ UNCHANGED <<kernelVars, ctxVars, faults, drainMark, drained, panicked, cqEntries, request, otherVars>>

\* RingHardLinker::submit: unsafe { self.ring.push(op)? }
CallPush == PushOp("HardLink", MaxOps)

\* The same, with the larger bound.
CallPushLink == PushOp("HardLink", MaxOpsLong)

\* The same, for the run of a single operation.
CallPushOne == PushOp("HardLink", MaxOpsResult)

\* The same on the default ring, with the bound that lets a callback meet a
\* saturated completion queue.
CallPushNested == \E kind \in Kinds : PushOp(kind, MaxOpsNested)

\* A caller pushes an operation of either variant.
CallPushAny == \E kind \in Kinds : PushOp(kind, MaxOpsLong)

SqIsFullAlways == TRUE
\* self.ring.submission().push(&entry).is_err(): the local queue is full.
SqIsFull == Len(sq) >= SqDepth

\* self.ring.submission().push(&entry) is Ok: the loop ends, push returns Ok.
\* The temporary queue view stores the tail when it is dropped.
PushTryOk ==
    /\ Running("push", "try")
    /\ ~SqIsFull
    /\ sq' = Append(sq, Descriptor(ops[Top.op].key, Top.op))
    /\ sqPub' = Len(sq')
    /\ ops' = [ops EXCEPT ![Top.op].pushRet = "ok"]
    /\ Return(OkRet(0))
    /\ UNCHANGED <<entries, cq, overflow, inflight, ctxVars, busySeen, faults,
                   drainMark, drained, panicked, cqEntries, request, otherVars>>

\* The submission queue is full: self.submit()?
PushTryFull ==
    /\ Running("push", "try")
    /\ SqIsFull
    /\ Call("wait", F("submit", "enter"))
    /\ UNCHANGED <<entries, kernelVars, ctxVars, ops, busySeen, faults,
                   drainMark, drained, panicked, cqEntries, request, otherVars>>

\* self.submit() has returned: Err leaves push, Ok tries again.
PushSubmitReturned ==
    /\ Running("push", "wait")
    /\ ret # NoRet
    /\ IF IsErr(ret)
       THEN /\ Return(ret)
            /\ ops' = [ops EXCEPT ![Top.op].pushRet = "err"]
       ELSE /\ stack' = SetPc("try")
            /\ ret' = NoRet
            /\ UNCHANGED <<lastRet, ops>>
    /\ UNCHANGED <<entries, kernelVars, ctxVars, busySeen, faults, drainMark,
                   drained, panicked, cqEntries, request, otherVars>>

----------------------------------------------------------------------------
\* Ring::submit

CallSubmit ==
    /\ Enter(<<F("submit", "enter")>>)
    /\ UNCHANGED <<entries, kernelVars, ctxVars, ops, faults, drainMark,
                   drained, panicked, cqEntries, request, otherVars>>

\* Ok(_) => { self.ring.submission().sync(); return Ok(()) }
SubmitOk ==
    /\ Running("submit", "enter")
    /\ ~KernelBusy(sqPub)
    /\ KernelAccept(sqPub)
    /\ sqPub' = 0
    /\ Return(OkRet(0))
    /\ UNCHANGED <<entries, ctxVars, busySeen, faults, drainMark, drained, panicked, cqEntries, request, otherVars>>

\* Err(EBUSY) => self.process_completions()?  The callee splits the ring and
\* syncs the completion queue: its tail shows all the ring holds.
SubmitBusy ==
    /\ Running("submit", "enter")
    /\ KernelBusy(sqPub)
    /\ KernelRefuse
    /\ busySeen' = TRUE
    /\ ctxPopped' = 0
    /\ ctxTail' = Len(cq')
    /\ Call("wait", Frame("pc", "loop", 0, TRUE, 0, FALSE, NoRet))
    /\ UNCHANGED <<entries, sqPub, faults, drainMark, drained, panicked, cqEntries, request, otherVars>>

IntrRunsPass(s) ==
    Append([s EXCEPT ![Len(s)].pc = "wait"],
           Frame("pc", "loop", 0, FALSE, 0, FALSE, NoRet))
\* continue: the loop goes back to the kernel call.
IntrContinue(s) == [s EXCEPT ![Len(s)].pc = "enter"]

\* The kernel call answers Err(EINTR).
SubmitIntr ==
    /\ Running("submit", "enter")
    /\ stack' = SetPc("intr")
    /\ UNCHANGED <<entries, kernelVars, ctxVars, ret, ops, lastRet, busySeen,
                   faults, drainMark, drained, panicked, cqEntries, request, otherVars>>

\* Err(EINTR) => continue
SubmitIntrContinue ==
    /\ Running("submit", "intr")
    /\ stack' = IntrContinue(stack)
    /\ UNCHANGED <<entries, kernelVars, ctxVars, ret, ops, lastRet, busySeen,
                   faults, drainMark, drained, panicked, cqEntries, request, otherVars>>

\* Err(e) => return Err(e)
SubmitFatal ==
    /\ Running("submit", "enter")
    /\ \E code \in FatalCodes : Fatal(code)
    /\ UNCHANGED <<entries, kernelVars, ctxVars, ops, busySeen, drainMark,
                   drained, panicked, cqEntries, request, otherVars>>

PassFailedNever(r) == FALSE
\* The ? after self.process_completions(): an Err leaves submit.
PassFailed(r) == IsErr(r)

\* self.process_completions()? has returned.
SubmitPcReturned ==
    /\ Running("submit", "wait")
    /\ ret # NoRet
    /\ IF PassFailed(ret)
       THEN Return(ret)
       ELSE stack' = SetPc("enter") /\ ret' = NoRet /\ lastRet' = lastRet
    /\ UNCHANGED <<entries, kernelVars, ctxVars, ops, busySeen, faults,
                   drainMark, drained, panicked, cqEntries, request, otherVars>>

----------------------------------------------------------------------------
\* Ring::process_completions and RingCtx::process_completions

\* A faulty pass that sees one completion at most.
SplitSeesOne ==
    /\ ctxPopped' = 0
    /\ ctxTail' = Min(Len(cq), 1)

\* let (submitter, submission, mut completion) = self.ring.split();
\* completion.sync();
SplitAndSync ==
    /\ ctxPopped' = 0
    /\ ctxTail' = Len(cq)

\* A faulty context whose drop stores a completion-queue head one entry short
\* of what it popped.
DropCtxHeadBehind ==
    /\ cq' = SubSeq(cq, IF ctxPopped > 0 THEN ctxPopped ELSE 1, Len(cq))
    /\ sqPub' = Len(sq)
    /\ ctxPopped' = 0
    /\ ctxTail' = 0

\* A faulty context whose drop does not store the completion queue's head.
DropCtxHeadKept ==
    /\ cq' = cq
    /\ sqPub' = Len(sq)
    /\ ctxPopped' = 0
    /\ ctxTail' = 0

\* A faulty context whose drop stores the cached tail as the head.
DropCtxHeadAtTail ==
    /\ cq' = SubSeq(cq, ctxTail + 1, Len(cq))
    /\ sqPub' = Len(sq)
    /\ ctxPopped' = 0
    /\ ctxTail' = 0

\* The context is dropped: the completion queue stores its head, the
\* submission queue its tail.
DropCtx ==
    /\ cq' = SubSeq(cq, ctxPopped + 1, Len(cq))
    /\ sqPub' = Len(sq)
    /\ ctxPopped' = 0
    /\ ctxTail' = 0

CallProcessCompletions ==
    /\ Enter(<<Frame("pc", "loop", 0, TRUE, 0, FALSE, NoRet)>>)
    /\ SplitAndSync
    /\ UNCHANGED <<entries, kernelVars, ops, faults, drainMark, drained, panicked, cqEntries, request, otherVars>>

\* self.completion.next() is Some(cqe): the operation stored under the tag is
\* removed and its callback is called with the translated result.
PcNext ==
    /\ Running("pc", "loop")
    /\ ctxPopped < ctxTail
    /\ ctxPopped' = ctxPopped + 1
    /\ LET cqe == cq[ctxPopped + 1] IN
       IF SlabContains(entries, cqe.tag)
       THEN /\ entries' = SlabRemove(entries, cqe.tag)
            /\ \/ /\ Call("wait", Frame("complete", "start",
                                        SlabGet(entries, cqe.tag),
                                        FALSE, 0, FALSE, Result(cqe.res)))
                  /\ UNCHANGED panicked
               \/ /\ NegOverflows(cqe.res)
                  /\ panicked' = TRUE
                  /\ UNCHANGED <<stack, ret, lastRet>>
       ELSE /\ panicked' = TRUE
            /\ UNCHANGED <<entries, stack, ret, lastRet>>
    /\ UNCHANGED <<kernelVars, ctxTail, ops, busySeen, faults, drainMark, drained,
                   cqEntries, request, otherVars>>

\* self.completion.next() is None: the loop ends.
PcDone ==
    /\ Running("pc", "loop")
    /\ ctxPopped >= ctxTail
    /\ Return(OkRet(0))
    /\ IF Top.outer
       THEN DropCtx /\ UNCHANGED <<sq, overflow, inflight>>
       ELSE UNCHANGED <<kernelVars, ctxVars>>
    /\ UNCHANGED <<entries, ops, busySeen, faults, drainMark, drained, panicked, cqEntries, request, otherVars>>

CompleteFailedNever(r) == FALSE
\* The ? after entry.complete(result, self): an Err leaves the pass.
CompleteFailed(r) == IsErr(r)

\* entry.complete(result, self)? has returned.
PcCompleteReturned ==
    /\ Running("pc", "wait")
    /\ ret # NoRet
    /\ IF CompleteFailed(ret)
       THEN /\ Return(ret)
            /\ IF Top.outer
               THEN DropCtx /\ UNCHANGED <<sq, overflow, inflight>>
               ELSE UNCHANGED <<kernelVars, ctxVars>>
       ELSE /\ stack' = SetPc("loop")
            /\ ret' = NoRet
            /\ UNCHANGED <<lastRet, kernelVars, ctxVars>>
    /\ UNCHANGED <<entries, ops, busySeen, faults, drainMark, drained, panicked, cqEntries, request, otherVars>>

----------------------------------------------------------------------------
\* RingOp::complete of the two operation variants.

\* complete(self, ..) consumes the operation: what stays of it is that it was
\* completed.
Delivered(op) ==
    [i \in DOMAIN ops |->
        IF i = op
        THEN [ops[i] EXCEPT !.done = @ + 1, !.kres = <<>>, !.key = 0,
                            !.kind = "Gone", !.rank = 0, !.fd = "none"]
        ELSE IF ops[op].rank > 0 /\ ops[i].rank > ops[op].rank
        THEN [ops[i] EXCEPT !.rank = @ - 1]
        ELSE ops[i]]

\* HardLinkOp::complete: _ = res?; Ok(())
HardLinkComplete(res) == IF IsErr(res) THEN res ELSE OkRet(0)

CompleteHardLink ==
    /\ Running("complete", "start")
    /\ ops[Top.op].kind = "HardLink"
    /\ ops' = Delivered(Top.op)
    /\ Return(HardLinkComplete(Top.res))
    /\ UNCHANGED <<entries, kernelVars, ctxVars, busySeen, faults, drainMark,
                   drained, panicked, cqEntries, request, otherVars>>

\* A chained operation: res?; unsafe { ctx.push(next)? }; Ok(())
CompleteChain ==
    /\ Running("complete", "start")
    /\ ops[Top.op].kind = "Chain"
    /\ IF IsErr(Top.res)
       THEN /\ ops' = Delivered(Top.op)
            /\ Return(Top.res)
            /\ UNCHANGED entries
       ELSE /\ ops' = Append(Delivered(Top.op),
                             NewOp("HardLink", TRUE, SlabVacantKey(entries)))
            /\ entries' = SlabInsert(entries, Len(ops) + 1)
            /\ Call("wait", FOp("cpush", "try", Len(ops) + 1))
    /\ UNCHANGED <<kernelVars, ctxVars, busySeen, faults, drainMark, drained, panicked, cqEntries, request, otherVars>>

CompleteChainReturned ==
    /\ Running("complete", "wait")
    /\ ret # NoRet
    /\ Return(ret)
    /\ UNCHANGED <<entries, kernelVars, ctxVars, ops, busySeen, faults,
                   drainMark, drained, panicked, cqEntries, request, otherVars>>

----------------------------------------------------------------------------
\* RingCtx::push

\* self.submission.push(&entry) is Ok.  The context's queue view keeps the
\* new tail to itself until it syncs or is dropped.
CtxPushTryOk ==
    /\ Running("cpush", "try")
    /\ Len(sq) < SqDepth
    /\ sq' = Append(sq, Descriptor(ops[Top.op].key, Top.op))
    /\ ops' = [ops EXCEPT ![Top.op].pushRet = "ok"]
    /\ Return(OkRet(0))
    /\ UNCHANGED <<entries, sqPub, cq, overflow, inflight, ctxVars, busySeen,
                   faults, drainMark, drained, panicked, cqEntries, request, otherVars>>

CtxPushTryFull ==
    /\ Running("cpush", "try")
    /\ Len(sq) >= SqDepth
    /\ Call("wait", F("csubmit", "enter"))
    /\ UNCHANGED <<entries, kernelVars, ctxVars, ops, busySeen, faults,
                   drainMark, drained, panicked, cqEntries, request, otherVars>>

CtxPushSubmitReturned ==
    /\ Running("cpush", "wait")
    /\ ret # NoRet
    /\ IF IsErr(ret)
       THEN /\ Return(ret)
            /\ ops' = [ops EXCEPT ![Top.op].pushRet = "err"]
       ELSE /\ stack' = SetPc("try")
            /\ ret' = NoRet
            /\ UNCHANGED <<lastRet, ops>>
    /\ UNCHANGED <<entries, kernelVars, ctxVars, busySeen, faults, drainMark,
                   drained, panicked, cqEntries, request, otherVars>>

----------------------------------------------------------------------------
\* RingCtx::submit

\* Ok(_) => { self.submission.sync(); return Ok(()) }  The kernel takes what
\* the shared tail shows; sync then stores the view's tail.
CtxSubmitOk ==
    /\ Running("csubmit", "enter")
    /\ ~KernelBusy(sqPub)
    /\ KernelAccept(sqPub)
    /\ sqPub' = Len(sq')
    /\ Return(OkRet(0))
    /\ UNCHANGED <<entries, ctxVars, busySeen, faults, drainMark, drained, panicked, cqEntries, request, otherVars>>

\* Err(EBUSY) => self.process_completions()?  No split, no sync: the loop
\* runs on the context's own view of the completion queue.
CtxSubmitBusy ==
    /\ Running("csubmit", "enter")
    /\ KernelBusy(sqPub)
    /\ KernelRefuse
    /\ busySeen' = TRUE
    /\ Call("wait", Frame("pc", "loop", 0, FALSE, 0, FALSE, NoRet))
    /\ UNCHANGED <<entries, sqPub, ctxVars, faults, drainMark, drained, panicked, cqEntries, request, otherVars>>

\* The kernel call answers Err(EINTR).
CtxSubmitIntr ==
    /\ Running("csubmit", "enter")
    /\ stack' = SetPc("intr")
    /\ UNCHANGED <<entries, kernelVars, ctxVars, ret, ops, lastRet, busySeen,
                   faults, drainMark, drained, panicked, cqEntries, request, otherVars>>

\* Err(EINTR) => continue
CtxSubmitIntrContinue ==
    /\ Running("csubmit", "intr")
    /\ stack' = IntrContinue(stack)
    /\ UNCHANGED <<entries, kernelVars, ctxVars, ret, ops, lastRet, busySeen,
                   faults, drainMark, drained, panicked, cqEntries, request, otherVars>>

CtxSubmitFatal ==
    /\ Running("csubmit", "enter")
    /\ \E code \in FatalCodes : Fatal(code)
    /\ UNCHANGED <<entries, kernelVars, ctxVars, ops, busySeen, drainMark,
                   drained, panicked, cqEntries, request, otherVars>>

CtxSubmitPcReturned ==
    /\ Running("csubmit", "wait")
    /\ ret # NoRet
    /\ IF IsErr(ret)
       THEN Return(ret)
       ELSE stack' = SetPc("enter") /\ ret' = NoRet /\ lastRet' = lastRet
    /\ UNCHANGED <<entries, kernelVars, ctxVars, ops, busySeen, faults,
                   drainMark, drained, panicked, cqEntries, request, otherVars>>

----------------------------------------------------------------------------
\* Ring::drain

CallDrain ==
    /\ Enter(<<F("drain", "wait"), Frame("pc", "loop", 0, TRUE, 0, FALSE, NoRet)>>)
    /\ SplitAndSync
    /\ drainMark' = Len(ops)
    /\ UNCHANGED <<entries, kernelVars, ops, faults, drained, panicked, cqEntries, request, otherVars>>

\* Faulty drains: one that breaks after its first pass, one that breaks when
\* the completion queue has nothing more to pop.
DrainDoneAfterOnePass(s) == TRUE
DrainDoneWhenQueueEmpty(s) == cq = <<>>
\* A faulty drain whose emptiness test is inverted.
DrainDoneInverted(s) == ~SlabIsEmpty(s)
\* if self.entries.is_empty() { break; }
DrainDone(s) == SlabIsEmpty(s)

\* self.process_completions()? has returned.
DrainPcReturned ==
    /\ Running("drain", "wait")
    /\ ret # NoRet
    /\ IF IsErr(ret)
       THEN Return(ret) /\ UNCHANGED drained /\ drainMark' = 0
       ELSE IF DrainDone(entries)
       THEN Return(OkRet(0)) /\ drained' = drainMark /\ drainMark' = 0
       ELSE stack' = SetPc("enter") /\ ret' = NoRet /\ UNCHANGED <<lastRet, drained, drainMark>>
    /\ UNCHANGED <<entries, kernelVars, ctxVars, ops, busySeen, faults,
                   panicked, cqEntries, request, otherVars>>

\* The loop goes round: self.process_completions()? is called again.
DrainAgain ==
    /\ ctxPopped' = 0
    /\ ctxTail' = Len(cq')
    /\ Call("wait", Frame("pc", "loop", 0, TRUE, 0, FALSE, NoRet))

\* submit_with_args(1, 10 ms) is Ok(_): descriptors were taken, or a
\* completion is there.
DrainWaitOk ==
    /\ Running("drain", "enter")
    /\ ~KernelBusy(sqPub)
    /\ sqPub > 0 \/ CqFlushed # <<>>
    /\ KernelAccept(sqPub)
    /\ sqPub' = 0
    /\ DrainAgain
    /\ UNCHANGED <<entries, busySeen, faults, drainMark, drained, panicked, cqEntries, request, otherVars>>

DrainFailsAlways(code) == TRUE
\* The arms of the match on the wait's error: Err(e) if e is ETIME => {},
\* Err(e) => return Err(e).
DrainFails(code) == code # ETIME

\* Err(ETIME): nothing to take and no completion within 10 ms.
DrainWaitTimeout ==
    /\ Running("drain", "enter")
    /\ sqPub = 0 /\ CqFlushed = <<>>
    /\ UNCHANGED <<entries, kernelVars, ops, busySeen, faults, drained,
                   panicked, cqEntries, request, otherVars>>
    /\ IF DrainFails(ETIME)
       THEN Return(ErrKernel(ETIME)) /\ drainMark' = 0 /\ UNCHANGED ctxVars
       ELSE DrainAgain /\ UNCHANGED drainMark

\* Err(e) => return Err(e), e being EBUSY: descriptors to take while
\* completions are held back.
DrainWaitBusy ==
    /\ Running("drain", "enter")
    /\ KernelBusy(sqPub)
    /\ KernelRefuse
    /\ busySeen' = TRUE
    /\ Return(ErrKernel(EBUSY))
    /\ UNCHANGED <<entries, sqPub, ctxVars, faults, drained, panicked, cqEntries, request, otherVars>>
    /\ drainMark' = 0

\* Err(e) => return Err(e), e being EINTR: a signal ends the wait.
DrainWaitIntr ==
    /\ Running("drain", "enter")
    /\ sqPub = 0 /\ CqFlushed = <<>>
    /\ Return(ErrKernel(EINTR))
    /\ UNCHANGED <<entries, kernelVars, ctxVars, ops, busySeen, faults,
                   drained, panicked, cqEntries, request, otherVars>>
    /\ drainMark' = 0

\* Err(e) => return Err(e), any other code.
DrainWaitFatal ==
    /\ Running("drain", "enter")
    /\ \E code \in FatalCodes : Fatal(code)
    /\ UNCHANGED <<entries, kernelVars, ctxVars, ops, busySeen, drained, panicked, cqEntries, request, otherVars>>
    /\ drainMark' = 0

----------------------------------------------------------------------------
\* Ring::submit_and_wait

\* A faulty submit_and_wait without the arm for ETIME.
SawResultNoTimeArm(timed, k) == k
\* What the call makes of the kernel's answer: with a timeout
\* Ok(n) => Ok(Some(n)), Err(ETIME) => Ok(None), Err(e) => Err(e);
\* without, .map(Some).
SawResult(timed, k) ==
    IF timed /\ IsErr(k) /\ k.v = ETIME THEN OkNone ELSE k

\* io_uring_enter returns the number of descriptors it took when it took
\* any, whatever ended the wait.
EnterResult(taken, waited) == IF taken.v > 0 THEN taken ELSE waited

CallSubmitAndWait ==
    \E want \in WantValues : \E timed \in BOOLEAN :
    /\ Enter(<<Frame("saw", "enter", 0, FALSE, want, timed, NoRet)>>)
    /\ UNCHANGED <<entries, kernelVars, ctxVars, ops, faults, drainMark,
                   drained, panicked, cqEntries, request, otherVars>>

\* The kernel takes the descriptors, then the call waits.
SawEnter ==
    /\ Running("saw", "enter")
    /\ ~KernelBusy(sqPub)
    /\ KernelAccept(sqPub)
    /\ sqPub' = 0
    /\ stack' = [stack EXCEPT ![Len(stack)].pc = "block",
                              ![Len(stack)].res = OkRet(sqPub)]
    /\ UNCHANGED <<entries, ctxVars, ret, lastRet, busySeen, faults, drainMark,
                   drained, panicked, cqEntries, request, otherVars>>

SawBusy ==
    /\ Running("saw", "enter")
    /\ KernelBusy(sqPub)
    /\ KernelRefuse
    /\ busySeen' = TRUE
    /\ Return(SawResult(Top.timed, ErrKernel(EBUSY)))
    /\ UNCHANGED <<entries, sqPub, ctxVars, faults, drainMark, drained, panicked, cqEntries, request, otherVars>>

SawFatal ==
    /\ Running("saw", "enter")
    /\ \E code \in FatalCodes :
         /\ faults < MaxFaults
         /\ faults' = faults + 1
         /\ Return(SawResult(Top.timed, ErrKernel(code)))
    /\ UNCHANGED <<entries, kernelVars, ctxVars, ops, busySeen, drainMark,
                   drained, panicked, cqEntries, request, otherVars>>

SawLeaveThroughPass(r) ==
    Call("wait", Frame("pc", "loop", 0, TRUE, 0, FALSE, NoRet))
\* The wait is over: the call returns what the kernel answered, and touches
\* neither the completions nor the table.
SawLeave(r) == Return(r)

\* `want` completions are available.
SawReady ==
    /\ Running("saw", "block")
    /\ Len(cq) >= Top.want
    /\ SawLeave(SawResult(Top.timed, Top.res))
    /\ UNCHANGED <<entries, kernelVars, ctxVars, ops, busySeen, faults,
                   drainMark, drained, panicked, cqEntries, request, otherVars>>

\* The timeout is reached first.
SawTimeout ==
    /\ Running("saw", "block")
    /\ Top.timed
    /\ Len(cq) < Top.want
    /\ Return(SawResult(Top.timed, EnterResult(Top.res, ErrKernel(ETIME))))
    /\ UNCHANGED <<entries, kernelVars, ctxVars, ops, busySeen, faults,
                   drainMark, drained, panicked, cqEntries, request, otherVars>>

\* A signal ends the wait first.
SawIntr ==
    /\ Running("saw", "block")
    /\ Len(cq) < Top.want
    /\ Return(SawResult(Top.timed, EnterResult(Top.res, ErrKernel(EINTR))))
    /\ UNCHANGED <<entries, kernelVars, ctxVars, ops, busySeen, faults,
                   drainMark, drained, panicked, cqEntries, request, otherVars>>

----------------------------------------------------------------------------
\* The hard-link client's ring: every operation is a hard link.
Next ==
    \/ CallPush \/ PushTryOk \/ PushTryFull \/ PushSubmitReturned
    \/ CallSubmit \/ SubmitOk \/ SubmitBusy \/ SubmitIntr \/ SubmitIntrContinue \/ SubmitFatal
    \/ SubmitPcReturned
    \/ CallProcessCompletions \/ PcNext \/ PcDone \/ PcCompleteReturned
    \/ CompleteHardLink
    \/ CallDrain \/ DrainPcReturned \/ DrainWaitOk \/ DrainWaitTimeout
    \/ DrainWaitBusy \/ DrainWaitIntr \/ DrainWaitFatal
    \/ CallSubmitAndWait \/ SawEnter \/ SawBusy \/ SawFatal \/ SawReady
    \/ SawTimeout \/ SawIntr
    \/ KernelCompleteOk \/ KernelCompleteErr

Spec == Init /\ [][Next]_vars

\* A ring whose operations push follow-ups from their callbacks, driven by
\* push, process_completions and drain.
NextChain ==
    \/ CallPushAny \/ PushTryOk \/ PushTryFull \/ PushSubmitReturned
    \/ SubmitOk \/ SubmitBusy \/ SubmitIntr \/ SubmitIntrContinue \/ SubmitPcReturned
    \/ CallProcessCompletions \/ PcNext \/ PcDone \/ PcCompleteReturned
    \/ CompleteHardLink \/ CompleteChain \/ CompleteChainReturned
    \/ CtxPushTryOk \/ CtxPushTryFull \/ CtxPushSubmitReturned
    \/ CtxSubmitOk \/ CtxSubmitBusy \/ CtxSubmitIntr \/ CtxSubmitIntrContinue \/ CtxSubmitPcReturned
    \/ CallDrain \/ DrainPcReturned \/ DrainWaitOk \/ DrainWaitTimeout
    \/ DrainWaitBusy
    \/ KernelCompleteOk \/ KernelCompleteErr

SpecChain == Init /\ [][NextChain]_vars

\* The same ring built as RingHardLinker::new builds it, every operation
\* succeeding, driven by push and process_completions.
NextNested ==
    \/ CallPushNested \/ PushTryOk \/ PushTryFull \/ PushSubmitReturned
    \/ SubmitOk \/ SubmitBusy \/ SubmitPcReturned
    \/ CallProcessCompletions \/ PcNext \/ PcDone \/ PcCompleteReturned
    \/ CompleteHardLink \/ CompleteChain \/ CompleteChainReturned
    \/ CtxPushTryOk \/ CtxPushTryFull \/ CtxPushSubmitReturned
    \/ CtxSubmitOk \/ CtxSubmitBusy \/ CtxSubmitPcReturned
    \/ KernelCompleteOk

SpecNested == InitDefaultRing /\ [][NextNested]_vars

\* The hard-link client as it drives its ring: RingHardLinker::submit and
\* RingHardLinker::drain only.
NextHardLinker ==
    \/ CallPushLink \/ PushTryOk \/ PushTryFull \/ PushSubmitReturned
    \/ SubmitOk \/ SubmitBusy \/ SubmitIntr \/ SubmitIntrContinue \/ SubmitFatal \/ SubmitPcReturned
    \/ PcNext \/ PcDone \/ PcCompleteReturned
    \/ CompleteHardLink
    \/ CallDrain \/ DrainPcReturned \/ DrainWaitOk \/ DrainWaitTimeout
    \/ DrainWaitBusy \/ DrainWaitIntr \/ DrainWaitFatal
    \/ KernelCompleteOk \/ KernelCompleteErr

SpecHardLinker == Init /\ [][NextHardLinker]_vars

\* Hard links on the ring RingHardLinker::new builds, driven through push,
\* submit, process_completions and drain, with operations that fail.
NextAbort ==
    \/ CallPushLink \/ PushTryOk \/ PushTryFull \/ PushSubmitReturned
    \/ CallSubmit \/ SubmitOk \/ SubmitBusy \/ SubmitPcReturned
    \/ CallProcessCompletions \/ PcNext \/ PcDone \/ PcCompleteReturned
    \/ CompleteHardLink
    \/ CallDrain \/ DrainPcReturned \/ DrainWaitOk \/ DrainWaitTimeout
    \/ DrainWaitBusy \/ DrainWaitIntr
    \/ KernelCompleteOk \/ KernelCompleteErr

SpecAbort == InitDefaultRing /\ [][NextAbort]_vars

\* One operation pushed, submitted, completed by the kernel with any raw
\* result and delivered.
NextResult ==
    \/ CallPushOne \/ PushTryOk
    \/ CallSubmit \/ SubmitOk
    \/ CallProcessCompletions \/ PcNext \/ PcDone \/ PcCompleteReturned
    \/ CompleteHardLink
    \/ KernelCompleteAny

SpecResult == Init /\ [][NextResult]_vars

\* The hard-link client with the directory arguments of its calls: links fail
\* or succeed, no kernel call fails for a reason other than a full queue.
NextResources ==
    \/ CallSubmitLink \/ PushTryOk \/ PushTryFull \/ PushSubmitReturned
    \/ SubmitOk \/ SubmitBusy \/ SubmitPcReturned
    \/ PcNext \/ PcDone \/ PcCompleteReturned
    \/ CompleteHardLink
    \/ CallDrain \/ DrainPcReturned \/ DrainWaitOk \/ DrainWaitTimeout
    \/ DrainWaitBusy
    \/ KernelCompleteOk \/ KernelCompleteErr

SpecResources == Init /\ [][NextResources]_vars

\* Backpressure alone: hard links are pushed and the ring is drained; no kernel
\* call fails for a reason other than a full queue, no signal arrives, and
\* every link succeeds.
NextBackpressure ==
    \/ CallPushLink \/ PushTryOk \/ PushTryFull \/ PushSubmitReturned
    \/ SubmitOk \/ SubmitBusy \/ SubmitPcReturned
    \/ PcNext \/ PcDone \/ PcCompleteReturned
    \/ CompleteHardLink
    \/ CallDrain \/ DrainPcReturned \/ DrainWaitOk \/ DrainWaitTimeout
    \/ DrainWaitBusy
    \/ KernelCompleteOk

SpecBackpressure == Init /\ [][NextBackpressure]_vars

----------------------------------------------------------------------------
\* The hard-link client's requests.

\* io::Error::other(..) of with_absolute_paths, and the io::Error made from
\* the NulError of CString::new.
ErrNotAbsolute == [t |-> "Err", v |-> 0, src |-> "not_absolute"]
ErrNul == [t |-> "Err", v |-> 0, src |-> "nul"]

HardLinkOpNewUnchecked(old, new) == OkRet(0)
\* HardLinkOp::new: CString::new(old_path ..)?, CString::new(new_path ..)?
HardLinkOpNew(old, new) ==
    IF old.nul THEN ErrNul ELSE IF new.nul THEN ErrNul ELSE OkRet(0)

\* HardLinkOp::with_absolute_paths
WithAbsolutePaths(old, new) ==
    IF ~old.absolute \/ ~new.absolute THEN ErrNotAbsolute
    ELSE HardLinkOpNew(old, new)

\* The operation hard_link_abs or hard_link_rel (RingHardLinker::submit)
\* builds from its arguments, or the error of building it.
Build(req) ==
    IF req.api = "hard_link_abs" THEN WithAbsolutePaths(req.old, req.new)
    ELSE HardLinkOpNew(req.old, req.new)

\* RingHardLinker::hard_link_abs, ::hard_link_rel are called.
CallHardLink ==
    \E req \in Requests :
    /\ Len(ops) < MaxOpsLong
    /\ Enter(<<F("link", "new")>>)
    /\ request' = req
    /\ UNCHANGED <<entries, kernelVars, ctxVars, ops, faults, drainMark,
                   drained, panicked, cqEntries, otherVars>>

\* let op = Op::HardLink(HardLinkOp::..(..)?); self.submit(op): an error of
\* the build returns at once, a built operation goes to Ring::push.
LinkNew ==
    /\ Running("link", "new")
    /\ IF IsErr(Build(request))
       THEN /\ Return(Build(request))
            /\ UNCHANGED <<entries, ops>>
       ELSE /\ stack' = <<FOp("push", "try", Len(ops) + 1)>>
            /\ ops' = Append(ops, NewOp("HardLink", FALSE, SlabVacantKey(entries)))
            /\ entries' = SlabInsert(entries, Len(ops) + 1)
            /\ UNCHANGED <<ret, lastRet>>
    /\ UNCHANGED <<kernelVars, ctxVars, busySeen, faults, drainMark, drained,
                   panicked, cqEntries, request, otherVars>>

\* The hard-link client driven through its requests and drain.
NextLink ==
    \/ CallHardLink \/ LinkNew
    \/ PushTryOk \/ PushTryFull \/ PushSubmitReturned
    \/ SubmitOk \/ SubmitBusy \/ SubmitPcReturned
    \/ PcNext \/ PcDone \/ PcCompleteReturned
    \/ CompleteHardLink
    \/ CallDrain \/ DrainPcReturned \/ DrainWaitOk \/ DrainWaitTimeout
    \/ DrainWaitBusy
    \/ KernelCompleteOk

SpecLink == Init /\ [][NextLink]_vars

----------------------------------------------------------------------------
\* accounts-hash-cache-tool: scan_file.  The reader is a stream of `size`
\* bytes past the header whose underlying read fails at the byte offset
\* `failAt` (-1: it never fails).  An entry is EntrySize bytes, and entry i is
\* the bytes from (i - 1) * EntrySize on.  num_entries_actual saturates at
\* usize::MAX, which no reader of the bounded sizes below reaches.

\* What read_exact returns when the reader's cursor is at byte `pos`: the
\* entry, UnexpectedEof when the stream ends inside it, the reader's error
\* when the underlying read fails before the entry is whole.
ReadExact(reader, pos) ==
    LET limit == IF reader.failAt >= 0 THEN reader.failAt ELSE reader.size
    IN  IF limit - pos >= EntrySize THEN "Ok"
        ELSE IF reader.failAt >= 0 THEN "Other"
        ELSE "UnexpectedEof"

AtAnyEnd(kind, actual, expected) == kind = "UnexpectedEof"
\* err.kind() == io::ErrorKind::UnexpectedEof
\*     && num_entries_actual.0 == num_entries_expected
AtExpectedEnd(kind, actual, expected) ==
    kind = "UnexpectedEof" /\ actual = expected

Readers == { r \in [size : 0..MaxBytes, failAt : -1..MaxBytes] :
               r.failAt <= r.size }

\* scan_file is entered: num_entries_actual = Saturating(0), user_fn not
\* yet applied to anything.
InitScan ==
    /\ InitEngine(CqDepth)
    /\ InitHistogram
    /\ diff = DiffIdle
    /\ \E r \in Readers, expected \in 0..MaxExpected :
         scan = [pc |-> "loop", reader |-> r, pos |-> 0,
                 num_entries_expected |-> expected, num_entries_actual |-> 0,
                 applied |-> <<>>, ret |-> NoRet]

\* Ok(()) => {}; user_fn(entry); num_entries_actual += 1
ScanEntry ==
    /\ scan.pc = "loop"
    /\ ReadExact(scan.reader, scan.pos) = "Ok"
    /\ scan' = [scan EXCEPT
                  !.pos = @ + EntrySize,
                  !.applied = Append(@, (scan.pos \div EntrySize) + 1),
                  !.num_entries_actual = @ + 1]
    /\ UNCHANGED <<ringVars, histVars, diff>>

\* Err(err): break and Ok(()) at the expected end of the file, otherwise
\* return Err(..).
ScanEnd ==
    /\ scan.pc = "loop"
    /\ ReadExact(scan.reader, scan.pos) # "Ok"
    /\ scan' = [scan EXCEPT
                  !.pc = "done",
                  !.ret = IF AtExpectedEnd(ReadExact(scan.reader, scan.pos),
                                           scan.num_entries_actual,
                                           scan.num_entries_expected)
                          THEN OkRet(0)
                          ELSE [t |-> "Err", v |-> scan.num_entries_actual,
                                src |-> ReadExact(scan.reader, scan.pos)]]
    /\ UNCHANGED <<ringVars, histVars, diff>>

NextScan == ScanEntry \/ ScanEnd

SpecScan == InitScan /\ [][NextScan]_vars

----------------------------------------------------------------------------
\* accounts-hash-cache-tool: do_diff_dirs.  A file is what its name parses
\* to (the slot range and the hash) and its mapped bytes, which stand for the
\* file's length, its header's entry count and its data.  Two files of one
\* directory differ in their names.

SlotRanges == { r \in (0..MaxSlot) \X (0..MaxSlot) : r[1] <= r[2] }
Files == [slot_range_start : 0..MaxSlot, slot_range_end : 0..MaxSlot,
          hash : 0..1, data : 0..1]

\* a.1.slot_range_start.cmp(&b.1.slot_range_start)
\*     .then_with(|| a.1.slot_range_end.cmp(&b.1.slot_range_end))
RangeCmp(a, b) ==
    IF a.slot_range_start < b.slot_range_start THEN "Less"
    ELSE IF a.slot_range_start > b.slot_range_start THEN "Greater"
    ELSE IF a.slot_range_end < b.slot_range_end THEN "Less"
    ELSE IF a.slot_range_end > b.slot_range_end THEN "Greater"
    ELSE "Equal"

\* What parse_and_sort_files_in can return: sort_unstable_by leaves files of
\* equal slot ranges in any order.
SortedDirs ==
    { d \in UNION { [1..n -> Files] : n \in 0..MaxFiles } :
        /\ \A i \in DOMAIN d :
             <<d[i].slot_range_start, d[i].slot_range_end>> \in SlotRanges
        /\ \A i, j \in DOMAIN d :
             i < j => /\ RangeCmp(d[i], d[j]) # "Greater"
                      /\ <<d[i].slot_range_start, d[i].slot_range_end,
                           d[i].hash>> #
                         <<d[j].slot_range_start, d[j].slot_range_end,
                           d[j].hash>> }

\* The closure is_equal: the lengths, the hashes of the names, the entry
\* counts of the headers and the hashes of the mapped bytes are the same.
\* Both files can be mapped.
IsEqual(file1, file2) ==
    /\ file1.hash = file2.hash
    /\ file1.data = file2.data

\* do_diff_dirs has sorted both directories and enters its loop.
InitDiff ==
    /\ InitEngine(CqDepth)
    /\ InitHistogram
    /\ scan = ScanIdle
    /\ \E files1 \in SortedDirs, files2 \in SortedDirs :
         diff = [pc |-> "loop", files1 |-> files1, files2 |-> files2,
                 idx1 |-> 0, idx2 |-> 0,
                 uniques1 |-> <<>>, uniques2 |-> <<>>,
                 mismatches |-> <<>>, compared |-> <<>>]

\* while idx1.0 < files1.len() && idx2.0 < files2.len()
InLoop ==
    /\ diff.pc = "loop"
    /\ diff.idx1 < Len(diff.files1)
    /\ diff.idx2 < Len(diff.files2)

\* &files1[idx1.0] and &files2[idx2.0], as indices from 1
File1 == diff.idx1 + 1
File2 == diff.idx2 + 1

\* Ordering::Less of either match: uniques1.push(file1); idx1 += 1
DiffUnique1 ==
    /\ InLoop
    /\ RangeCmp(diff.files1[File1], diff.files2[File2]) = "Less"
    /\ diff' = [diff EXCEPT !.uniques1 = Append(@, File1), !.idx1 = @ + 1]
    /\ UNCHANGED <<ringVars, histVars, scan>>

\* Ordering::Greater of either match: uniques2.push(file2); idx2 += 1
DiffUnique2 ==
    /\ InLoop
    /\ RangeCmp(diff.files1[File1], diff.files2[File2]) = "Greater"
    /\ diff' = [diff EXCEPT !.uniques2 = Append(@, File2), !.idx2 = @ + 1]
    /\ UNCHANGED <<ringVars, histVars, scan>>

\* Ordering::Equal of both: if !is_equal() { mismatches.push(..) };
\* idx1 += 1; idx2 += 1
DiffCompare ==
    /\ InLoop
    /\ RangeCmp(diff.files1[File1], diff.files2[File2]) = "Equal"
    /\ diff' = [diff EXCEPT
                  !.compared = Append(@, <<File1, File2>>),
                  !.mismatches =
                      IF IsEqual(diff.files1[File1], diff.files2[File2])
                      THEN @ ELSE Append(@, <<File1, File2>>),
                  !.idx1 = @ + 1,
                  !.idx2 = @ + 1]
    /\ UNCHANGED <<ringVars, histVars, scan>>

\* The loop is left: the files from idx1 on go to uniques1, those from idx2
\* on to uniques2.
DiffTail ==
    /\ diff.pc = "loop"
    /\ ~InLoop
    /\ diff' = [diff EXCEPT
                  !.pc = "done",
                  !.uniques1 = @ \o [k \in 1..(Len(diff.files1) - diff.idx1)
                                       |-> diff.idx1 + k],
                  !.uniques2 = @ \o [k \in 1..(Len(diff.files2) - diff.idx2)
                                       |-> diff.idx2 + k]]
    /\ UNCHANGED <<ringVars, histVars, scan>>

NextDiff == DiffUnique1 \/ DiffUnique2 \/ DiffCompare \/ DiffTail

SpecDiff == InitDiff /\ [][NextDiff]_vars

----------------------------------------------------------------------------
\* LoadAccountsHistogram.  Threads share it by reference: record and
\* maybe_submit take &self.  The histogram's increment, percentiles and clear
\* are each taken as one step.

SubmitInterval(h) == IF h = "1_minute" THEN MinuteInterval ELSE HourInterval

\* The clock advances by a minute or by an hour.
Ticks == (now \div HourInterval) + (now % HourInterval)
Tick ==
    /\ Ticks < MaxTicks
    /\ \E d \in {MinuteInterval, HourInterval} : now' = now + d
    /\ UNCHANGED <<ringVars, scan, diff, histogram, previousSubmit, submitLock, thread,
                   samples, recorded, counted, datapoint>>

\* The thread goes on, after the 1 minute histogram, to the 1 hour one, and
\* after that returns.
AfterInner(t, pc) ==
    thread' = [thread EXCEPT ![t] =
                 IF thread[t].h = "1_minute"
                 THEN [thread[t] EXCEPT !.pc = pc, !.h = "1_hour", !.dur = 0]
                 ELSE ThreadIdle]

\* LoadAccountsHistogram::record: sample.as_nanos().try_into().expect(..)
\* panics when the sample does not fit in u64.
RecordCall ==
    \E t \in Threads : \E fits \in BOOLEAN :
    /\ thread[t].pc = "idle"
    /\ samples < MaxSamples
    /\ IF fits
       THEN /\ samples' = samples + 1
            /\ thread' = [thread EXCEPT ![t] =
                            [pc |-> "record", h |-> "1_minute",
                             sample |-> samples + 1, dur |-> 0]]
       ELSE /\ thread' = [thread EXCEPT ![t].pc = "panicked"]
            /\ UNCHANGED samples
    /\ UNCHANGED <<ringVars, scan, diff, now, histogram, previousSubmit, submitLock,
                   recorded, counted, datapoint>>

\* Inner::record: self.histogram.increment(sample, 1)
InnerRecord ==
    \E t \in Threads :
    /\ thread[t].pc = "record"
    /\ LET h == thread[t].h IN
       /\ histogram' = [histogram EXCEPT ![h] = @ \cup {thread[t].sample}]
       /\ recorded' = [recorded EXCEPT ![h] = @ \cup {thread[t].sample}]
    /\ AfterInner(t, "record")
    /\ UNCHANGED <<ringVars, scan, diff, now, previousSubmit, submitLock, samples, counted,
                   datapoint>>

\* LoadAccountsHistogram::maybe_submit
MaybeSubmitCall ==
    \E t \in Threads :
    /\ thread[t].pc = "idle"
    /\ thread' = [thread EXCEPT ![t] =
                    [pc |-> "check", h |-> "1_minute", sample |-> 0, dur |-> 0]]
    /\ UNCHANGED <<ringVars, scan, diff, now, histogram, previousSubmit, submitLock,
                   samples, recorded, counted, datapoint>>

\* Inner::maybe_submit: the condition is evaluated under the read lock, which
\* is released before the body of the if runs.
InnerMaybeSubmit ==
    \E t \in Threads :
    /\ thread[t].pc = "check"
    /\ submitLock[thread[t].h] = "free"
    /\ IF now - previousSubmit[thread[t].h] >= SubmitInterval(thread[t].h)
       THEN thread' = [thread EXCEPT ![t].pc = "lock"]
       ELSE AfterInner(t, "check")
    /\ UNCHANGED <<ringVars, scan, diff, now, histogram, previousSubmit, submitLock,
                   samples, recorded, counted, datapoint>>

\* Inner::submit: the write lock is taken, duration = previous_submit.elapsed()
InnerSubmitLock ==
    \E t \in Threads :
    /\ thread[t].pc = "lock"
    /\ submitLock[thread[t].h] = "free"
    /\ submitLock' = [submitLock EXCEPT ![thread[t].h] = t]
    /\ thread' = [thread EXCEPT ![t].pc = "percentiles",
                                ![t].dur = now - previousSubmit[thread[t].h]]
    /\ UNCHANGED <<ringVars, scan, diff, now, histogram, previousSubmit, samples, recorded,
                   counted, datapoint>>

\* Inner::submit: self.histogram.percentiles(..), datapoint_info!(..): the
\* datapoint is made of the samples the histogram holds now.
InnerSubmitDatapoint ==
    \E t \in Threads :
    /\ thread[t].pc = "percentiles"
    /\ LET h == thread[t].h IN
       /\ counted' = [counted EXCEPT ![h] =
                        [s \in SampleIds |->
                           IF s \in histogram[h] THEN @[s] + 1 ELSE @[s]]]
       /\ datapoint' = [datapoint EXCEPT ![h] =
                          [emitted |-> TRUE, duration |-> thread[t].dur]]
    /\ thread' = [thread EXCEPT ![t].pc = "clear"]
    /\ UNCHANGED <<ringVars, scan, diff, now, histogram, previousSubmit, submitLock,
                   samples, recorded>>

\* Inner::submit: self.histogram.clear(); *previous_submit = Instant::now();
\* the write lock is released on return.
InnerSubmitClear ==
    \E t \in Threads :
    /\ thread[t].pc = "clear"
    /\ LET h == thread[t].h IN
       /\ histogram' = [histogram EXCEPT ![h] = {}]
       /\ previousSubmit' = [previousSubmit EXCEPT ![h] = now]
       /\ submitLock' = [submitLock EXCEPT ![h] = "free"]
    /\ AfterInner(t, "check")
    /\ UNCHANGED <<ringVars, scan, diff, now, samples, recorded, counted, datapoint>>

NextHistogram ==
    \/ Tick
    \/ RecordCall \/ InnerRecord
    \/ MaybeSubmitCall \/ InnerMaybeSubmit
    \/ InnerSubmitLock \/ InnerSubmitDatapoint \/ InnerSubmitClear

SpecHistogram == Init /\ [][NextHistogram]_vars

----------------------------------------------------------------------------
\* Properties.

Range(q) == {q[i] : i \in DOMAIN q}
\* Completions in the ring that the engine has not popped.
Unpopped == SubSeq(cq, ctxPopped + 1, Len(cq))
\* Descriptors put on the submission queue whose completion has not been
\* popped: still queued, with the kernel, or completed and waiting.
Outstanding ==
    Range(sq) \cup inflight
    \cup {Descriptor(c.tag, c.op) : c \in Range(Unpopped) \cup Range(overflow)}
OutstandingTags == {d.tag : d \in Outstanding}
\* The operation has been taken from the table and its callback is running.
InCallback(i) == \E k \in DOMAIN stack : stack[k].f = "complete" /\ stack[k].op = i
DrainReturnedOk == lastRet.api = "drain" /\ lastRet.ret.t = "Ok"

\* C1: the complete callback of a pushed operation has never run more than
\* once, and has run exactly once for every operation pushed when drain has
\* returned Ok, however push, submit and process_completions were interleaved.
C1_ExactlyOnce ==
    /\ \A i \in DOMAIN ops : ops[i].done <= 1
    /\ DrainReturnedOk => \A i \in DOMAIN ops : ops[i].done = 1

\* drain has returned Ok after at least two operations were pushed and
\* completed.
C1_Witness ==
    /\ DrainReturnedOk
    /\ Len(ops) >= 2
    /\ \A i \in DOMAIN ops : ops[i].done = 1

\* C2: between engine calls the keys of the entries table are exactly the tags
\* of the descriptors put on the submission queue whose completion has not been
\* processed.
C2_TableIsOutstanding == Idle => SlabKeys(entries) = OutstandingTags

\* C3: once drain has returned Ok the entries table is empty, and no callback
\* is invoked afterwards for an operation pushed before that drain call.
C3_DrainFinal ==
    /\ [](DrainReturnedOk => SlabKeys(entries) = {})
    /\ [][\A i \in 1..drained : ops'[i].done = ops[i].done]_vars

\* After a drain that returned Ok for at least one operation, a later
\* operation has been pushed and completed.
C3_Witness ==
    /\ drained >= 1
    /\ Len(ops) > drained
    /\ ops[Len(ops)].done = 1
    /\ \A i \in 1..drained : ops[i].done = 1

\* C4: with more pushes than the submission queue is deep and nothing but
\* backpressure in the way, every push returns Ok, and when a following drain
\* has returned every pushed operation has been completed.
C4_BackpressureTransparent ==
    /\ \A i \in DOMAIN ops : ops[i].pushRet # "err"
    /\ lastRet.api = "drain" => \A i \in DOMAIN ops : ops[i].done = 1

C6_NoBusyNoIntr ==
    (IsErr(lastRet.ret) /\ lastRet.ret.src = "kernel") =>
        lastRet.ret.v \notin {EBUSY, EINTR}

\* C7: whenever a complete callback is invoked it receives the translation of
\* the raw result the kernel posted for that very operation: Err carrying the
\* negated code when the result is negative, Ok carrying the result otherwise,
\* whatever the other operations in flight got and in whatever order.
C7_ResultIsolated ==
    \A k \in DOMAIN stack :
        (stack[k].f = "complete" /\ stack[k].pc = "start") =>
            /\ ops[stack[k].op].kres # <<>>
            /\ LET raw == ops[stack[k].op].kres[1] IN
               IF raw < 0
               THEN stack[k].res = [t |-> "Err", v |-> -raw, src |-> "op"]
               ELSE stack[k].res = [t |-> "Ok", v |-> raw, src |-> "none"]

\* The callback of a failed operation is invoked while an operation pushed
\* before it holds a result that is not negative, reported after its own.
C7_Witness ==
    /\ Running("complete", "start")
    /\ IsErr(Top.res)
    /\ \E j \in DOMAIN ops :
         /\ j < Top.op
         /\ ops[j].kres # <<>>
         /\ ops[j].kres[1] >= 0
         /\ ops[j].done = 0

\* C8: a negative result of one hard link does not end the drain: unless a
\* kernel call failed, drain returns only when the entries table is empty.
C8_NegativeResultNoAbort ==
    (lastRet.api = "drain" /\ lastRet.ret.src # "kernel") =>
        SlabKeys(entries) = {}

\* C9: an operation pushed through the context by a callback is in the table
\* under the tag of its descriptor once that push has returned Ok, is never
\* completed twice, and has reached the kernel and been completed exactly once
\* when a drain has returned Ok.
C9_FollowUpCompleted ==
    /\ \A i \in DOMAIN ops :
         (ops[i].follow /\ ops[i].pushRet = "ok" /\ ~InCallback(i)
              /\ ops[i].done = 0) =>
             /\ SlabContains(entries, ops[i].key)
             /\ SlabGet(entries, ops[i].key) = i
             /\ Descriptor(ops[i].key, i) \in Outstanding
    /\ \A i \in DOMAIN ops : ops[i].follow => ops[i].done <= 1
    /\ DrainReturnedOk =>
         \A i \in DOMAIN ops : ops[i].follow => ops[i].acc /\ ops[i].done = 1

\* A drain has returned Ok after a callback pushed a follow-up.
C9_Witness ==
    /\ DrainReturnedOk
    /\ \E i \in DOMAIN ops : ops[i].follow /\ ops[i].acc /\ ops[i].done = 1

\* C10: no two outstanding descriptors carry the same key, also when an
\* operation is pushed from inside the callback of the completion that freed
\* the key.
C10_KeysDistinct ==
    \A d1, d2 \in Outstanding : d1.tag = d2.tag => d1 = d2

\* A callback pushes a follow-up that got the key of the operation being
\* completed, while another descriptor is outstanding.
C10_Witness ==
    /\ Running("cpush", "try")
    /\ ctxPopped > 0
    /\ ops[Top.op].key = cq[ctxPopped].tag
    /\ Outstanding # {}

\* C11: the engine has never met a vacant key, and every completion waiting to
\* be popped carries a tag under which the table holds the operation it
\* completes, also after engine calls have returned errors.
C11_TagPresent ==
    /\ ~panicked
    /\ \A c \in Range(Unpopped) \cup Range(overflow) :
         SlabContains(entries, c.tag) /\ SlabGet(entries, c.tag) = c.op

\* A completion is popped and its callback invoked after a push has returned
\* an error.
C11_Witness ==
    /\ Running("complete", "start")
    /\ \E i \in DOMAIN ops : ops[i].pushRet = "err"

\* C12: the step of Ring::submit in which the kernel submit call fails with a
\* code other than EBUSY and EINTR returns that error and changes neither the
\* entries table nor the queues; when submit has returned such an error the
\* descriptors queued locally are all visible to the kernel and their
\* operations are in the table, for a later submit to hand over.
C12_SubmitFatalKeepsState ==
    /\ [][(Running("submit", "enter") /\ faults' = faults + 1) =>
            /\ stack' = Pop(stack)
            /\ LET r == IF Len(stack) = 1 THEN lastRet'.ret ELSE ret' IN
               /\ r.t = "Err"
               /\ r.src = "kernel"
               /\ r.v \in FatalCodes
               /\ r.v \notin {EBUSY, EINTR}
            /\ entries' = entries
            /\ <<sq, sqPub, inflight, cq, overflow>>' =
                   <<sq, sqPub, inflight, cq, overflow>>]_vars
    /\ []((lastRet.api = "submit" /\ IsErr(lastRet.ret)
              /\ lastRet.ret.src = "kernel") =>
            /\ sqPub = Len(sq)
            /\ \A d \in Range(sq) :
                 SlabContains(entries, d.tag) /\ SlabGet(entries, d.tag) = d.op)

\* submit has returned the kernel's error with a descriptor still queued.
C12_Witness ==
    /\ lastRet.api = "submit"
    /\ IsErr(lastRet.ret)
    /\ lastRet.ret.src = "kernel"
    /\ sq # <<>>

\* C13: when a push has returned Err the table holds no entry for the
\* operation it was given, whose descriptor was never put on the submission
\* queue.
C13_FailedPushLeavesNoEntry ==
    \A i \in DOMAIN ops :
        ops[i].pushRet = "err" =>
            ~(SlabContains(entries, ops[i].key) /\ SlabGet(entries, ops[i].key) = i)

\* The steps the driving thread takes inside an engine call, once the call
\* is made: the thread keeps running.
EngineBackpressure ==
    \/ PushTryOk \/ PushTryFull \/ PushSubmitReturned
    \/ SubmitOk \/ SubmitBusy \/ SubmitPcReturned
    \/ PcNext \/ PcDone \/ PcCompleteReturned
    \/ CompleteHardLink
    \/ DrainPcReturned \/ DrainWaitOk \/ DrainWaitTimeout \/ DrainWaitBusy

\* Backpressure alone, with a thread that keeps running and a kernel that
\* completes every descriptor it has accepted.
SpecBackpressureFair ==
    /\ SpecBackpressure
    /\ WF_vars(EngineBackpressure)
    /\ WF_vars(KernelCompleteOk)

DrainRunning == stack # <<>> /\ stack[1].f = "drain"

\* C14: with a kernel that completes every accepted operation, no kernel call
\* failing for good, every callback returning Ok and no follow-ups, a drain
\* that has been called eventually returns Ok; it never returns Ok while the
\* table is not empty.
C14_DrainReturnsOk ==
    /\ DrainRunning ~> DrainReturnedOk
    /\ [](DrainReturnedOk => SlabKeys(entries) = {})

\* drain has just been called, or has just gone round its loop, and the
\* entries table is empty.
DrainPassOnEmpty ==
    /\ DrainRunning
    /\ Len(stack) = 2
    /\ Running("pc", "loop")
    /\ ctxPopped = 0
    /\ SlabKeys(entries) = {}
\* The pass of a drain has returned Ok and the entries table is empty.
DrainCheckOnEmpty ==
    /\ stack = <<F("drain", "wait")>>
    /\ ret = OkRet(0)
    /\ SlabKeys(entries) = {}
\* What a step leaves alone when it makes no kernel call and runs no callback.
NoKernelCallNoCallback ==
    /\ entries' = entries
    /\ ops' = ops
    /\ <<sq, sqPub, inflight, cq, overflow>>' = <<sq, sqPub, inflight, cq, overflow>>

\* C15: a drain called with an empty entries table finds no completion after
\* its one completion-queue sync, ends its pass at once and returns Ok: the
\* only steps it takes are these two, neither makes a kernel submit or wait
\* call, neither invokes a callback.
C15_DrainOnEmpty ==
    /\ [](DrainPassOnEmpty => ctxTail = 0 /\ cq = <<>> /\ overflow = <<>>)
    /\ [][DrainPassOnEmpty =>
            /\ stack' = <<F("drain", "wait")>>
            /\ ret' = OkRet(0)
            /\ NoKernelCallNoCallback]_vars
    /\ [][DrainCheckOnEmpty =>
            /\ stack' = <<>>
            /\ lastRet' = [api |-> "drain", ret |-> OkRet(0)]
            /\ NoKernelCallNoCallback]_vars

\* drain has been called on an empty table after earlier operations were
\* completed.
C15_Witness ==
    /\ DrainPassOnEmpty
    /\ Len(ops) >= 1

\* A step returns from a submit_and_wait call to its caller.
SawReturns == stack # <<>> /\ stack[1].f = "saw" /\ stack' = <<>>

\* C16: a submit_and_wait with a timeout returns Ok(None) when the timeout
\* ends the wait, never Err(ETIME); a wait that succeeds returns Ok(Some(n));
\* any other error of the kernel is returned as Err; without a timeout the
\* call never returns Ok(None).
C16_TimeoutIsNotAnError ==
    /\ [](lastRet.api = "saw" =>
            \/ lastRet.ret.t = "Ok"
            \/ lastRet.ret = [t |-> "OkNone", v |-> 0, src |-> "none"]
            \/ /\ lastRet.ret.t = "Err"
               /\ lastRet.ret.src = "kernel"
               /\ lastRet.ret.v # ETIME)
    /\ [][SawReturns =>
            LET r == lastRet'.ret IN
            /\ r.t = "OkNone" =>
                 /\ Top.timed
                 /\ Top.pc = "block"
                 /\ Len(cq) < Top.want
                 /\ Top.res.v = 0
            /\ (Top.pc = "block" /\ Len(cq) >= Top.want) =>
                 r = [t |-> "Ok", v |-> Top.res.v, src |-> "none"]
            /\ (Top.pc = "block" /\ Top.timed /\ Top.res.v = 0) =>
                 r.t \in {"Ok", "OkNone"} \/ (r.t = "Err" /\ r.v = EINTR)]_vars

\* A call with a timeout has returned Ok(None) while it wanted a completion
\* that had not arrived.
C16_Witness ==
    /\ lastRet = [api |-> "saw", ret |-> OkNone]
    /\ inflight # {}
    /\ cq = <<>>

ActiveCallbacks == {k \in DOMAIN stack : stack[k].f = "complete"}

\* C18: at most one complete callback is active at any time: none is invoked
\* while another has not returned, also when the running callback pushes a
\* follow-up through the context.
C18_OneCallbackActive == Cardinality(ActiveCallbacks) <= 1

\* The operation is in the entries table: pushed, its completion not yet
\* processed.
InTable(i) == SlabContains(entries, ops[i].key) /\ SlabGet(entries, ops[i].key) = i

\* C19: the directory file descriptors an operation's descriptor refers to are
\* open for as long as the operation is in the table, and the operation, which
\* holds the two path buffers, exists until its callback has been invoked.
C19_ResourcesValid ==
    \A i \in DOMAIN ops :
        InTable(i) => ops[i].fd = "open" /\ ops[i].kind # "Gone"

\* A process_completions call made by the caller of the engine is running.
PassRunning == stack # <<>> /\ stack[1].f = "pc"

\* C20: a process_completions call sees every completion the ring holds when
\* it starts and keeps that view; when it returns Ok the callback of each of
\* them has been invoked and all of them have left the ring: it does not stop
\* after one entry while it saw more.
C20_PassDrainsVisible ==
    /\ [][(Idle /\ stack' # <<>> /\ stack'[1].f = "pc") =>
            ctxTail' = Len(cq) /\ ctxPopped' = 0]_vars
    /\ [][(PassRunning /\ stack' # <<>>) => ctxTail' = ctxTail]_vars
    /\ [][(PassRunning /\ stack' = <<>> /\ lastRet'.ret.t = "Ok") =>
            /\ \A k \in 1..ctxTail : ops[cq[k].op].done = 1
            /\ cq' = SubSeq(cq, ctxTail + 1, Len(cq))]_vars

\* A process_completions call that saw two completions has popped both and
\* is about to return.
C20_Witness ==
    /\ PassRunning
    /\ Len(stack) = 1
    /\ Top.pc = "loop"
    /\ ctxTail = 2
    /\ ctxPopped = 2

\* C21: the result translation hands the callback Err carrying -res for every
\* raw result res < 0 of the integer range, its minimum included, and Ok(res)
\* for every res >= 0, and never panics.
C21_ResultTranslation ==
    /\ ~panicked
    /\ \A k \in DOMAIN stack :
         (stack[k].f = "complete" /\ stack[k].pc = "start") =>
             LET raw == ops[stack[k].op].kres[1] IN
             /\ raw < 0 => stack[k].res = [t |-> "Err", v |-> 0 - raw, src |-> "op"]
             /\ raw >= 0 => stack[k].res = [t |-> "Ok", v |-> raw, src |-> "none"]

\* C22: when submit_and_wait returns Ok(Some(n)), n is the number of
\* completions received, and a call without timeout returns it only once at
\* least `want` completions are available.
C22_SawCountsCompletions ==
    [][(SawReturns /\ lastRet'.ret.t = "Ok") =>
          /\ lastRet'.ret.v = Len(cq')
          /\ ~stack[1].timed => Len(cq') >= stack[1].want]_vars

\* The kernel takes a descriptor in this step.
KernelTakes == \E i \in DOMAIN ops : ~ops[i].acc /\ ops'[i].acc

\* C23: a push that finds room in the submission queue makes no kernel call:
\* it returns at once with the operation in the table and its descriptor in
\* the local queue, not taken by the kernel; push calls submit only when the
\* queue is full; the kernel takes descriptors only in the kernel call of
\* submit or of a call that submits internally.
C23_PushDefersSubmission ==
    [][/\ (Running("push", "try") /\ stack' # stack) =>
            IF Len(sq) < SqDepth
            THEN /\ stack' = Pop(stack)
                 /\ UNCHANGED <<cq, overflow, inflight>>
                 /\ ~KernelTakes
                 /\ sq' = Append(sq, Descriptor(ops[Top.op].key, Top.op))
                 /\ SlabContains(entries', ops[Top.op].key)
                 /\ SlabGet(entries', ops[Top.op].key) = Top.op
            ELSE /\ stack' = Append(SetPc("wait"), F("submit", "enter"))
                 /\ UNCHANGED <<sq, inflight>>
       /\ KernelTakes =>
            /\ stack # <<>>
            /\ Top.f \in {"submit", "csubmit", "drain", "saw"}
            /\ Top.pc = "enter"]_vars

\* A push that followed an earlier operation has returned Ok: its operation
\* is in the table and its descriptor waits in the local queue, not taken.
C23_Witness ==
    /\ Idle
    /\ lastRet = [api |-> "push", ret |-> OkRet(0)]
    /\ Len(ops) >= 2
    /\ ~ops[Len(ops)].acc
    /\ InTable(Len(ops))
    /\ \E j \in DOMAIN sq : sq[j].op = Len(ops)

\* C24: every sample a histogram was incremented with is held by the
\* histogram until a datapoint of that histogram includes it, and is included
\* in exactly one datapoint: it is never discarded, whichever threads call
\* record and maybe_submit.
C24_SampleInNextSubmission ==
    \A h \in Hists : \A s \in recorded[h] :
        /\ counted[h][s] <= 1
        /\ s \in histogram[h] \/ counted[h][s] = 1

\* C25: every datapoint a histogram submits covers at least its
\* submit_interval since the previous submission of that histogram, whichever
\* threads call maybe_submit.
C25_OneSubmissionPerInterval ==
    \A h \in Hists :
        datapoint[h].emitted => datapoint[h].duration >= SubmitInterval(h)

\* What the frame that returns in this step hands to its caller.
Returned == IF Len(stack) = 1 THEN lastRet'.ret ELSE ret'

\* C26: when the kernel answers EBUSY to Ring::submit (its answer, short of
\* EINTR or another error, when completions are held back), submit runs a
\* pass over all the completions the ring holds, without a descriptor being
\* taken; when
\* the pass returns Ok submit calls the kernel again, when it returns Err
\* submit returns that error; and submit returns Ok only in the step in which
\* the kernel took every published descriptor.
C26_BusyProcessThenRetry ==
    [][/\ (Running("submit", "enter") /\ KernelBusy(sqPub)
              /\ stack' # stack /\ stack' # SetPc("intr")
              /\ faults' = faults) =>
            /\ stack' = Append(SetPc("wait"),
                               Frame("pc", "loop", 0, TRUE, 0, FALSE, NoRet))
            /\ ctxPopped' = 0
            /\ ctxTail' = Len(cq')
            /\ UNCHANGED <<sq, sqPub, inflight, entries>>
       /\ (Running("submit", "wait") /\ ret # NoRet /\ stack' # stack) =>
            IF IsErr(ret)
            THEN stack' = Pop(stack) /\ Returned = ret
            ELSE stack' = SetPc("enter")
       /\ (stack # <<>> /\ Top.f = "submit" /\ stack' = Pop(stack)
              /\ ~IsErr(Returned)) =>
            /\ Top.pc = "enter"
            /\ ~KernelBusy(sqPub)
            /\ inflight' = inflight \cup {sq[i] : i \in 1..sqPub}
            /\ sqPub' = 0]_vars

\* Ring::submit has returned Ok after the kernel had answered EBUSY and the
\* pass had delivered a completion.
C26_Witness ==
    /\ lastRet = [api |-> "submit", ret |-> OkRet(0)]
    /\ busySeen
    /\ \E i \in DOMAIN ops : ops[i].done = 1
    /\ inflight # {}

\* The frame on top is the submit loop of the engine or of the context.
InSubmit(pc) == stack # <<>> /\ Top.f \in {"submit", "csubmit"} /\ Top.pc = pc

\* C27: when the kernel answers EINTR to Ring::submit or RingCtx::submit, the
\* call goes straight back to its kernel call: no pass over the completions is
\* started, no callback is invoked, the table and the queues are left as they
\* are; and no count limits the retries: wherever the call is about to enter
\* the kernel, EINTR can be answered again.
C27_IntrRetriesAtOnce ==
    /\ [][/\ (InSubmit("enter") /\ stack' = SetPc("intr")) =>
               UNCHANGED <<entries, kernelVars, ctxVars, ops, ret, lastRet>>
          /\ (InSubmit("intr") /\ stack' # stack) =>
               /\ stack' = SetPc("enter")
               /\ UNCHANGED <<entries, kernelVars, ctxVars, ops, ret, lastRet>>]_vars
    /\ [](Running("submit", "enter") => ENABLED SubmitIntr)
    /\ [](Running("csubmit", "enter") => ENABLED CtxSubmitIntr)
    /\ [](Running("submit", "intr") => ENABLED SubmitIntrContinue)
    /\ [](Running("csubmit", "intr") => ENABLED CtxSubmitIntrContinue)

\* RingCtx::submit, called by a callback, has met EINTR while completions
\* wait in the ring and operations are in the table.
C27_Witness ==
    /\ Running("csubmit", "intr")
    /\ cq # <<>>
    /\ ~SlabIsEmpty(entries)

\* C28: when a callback returns Err(e) the pass stops in its next step and
\* returns Err(e) without removing another operation from the table, and a
\* submit, push or drain that waits for the pass returns the same Err(e): no
\* other callback is invoked in that pass.
C28_CallbackErrorStopsPass ==
    [][/\ (Running("pc", "wait") /\ IsErr(ret) /\ stack' # stack) =>
            /\ stack' = Pop(stack)
            /\ Returned = ret
            /\ UNCHANGED <<entries, ops>>
       /\ (~panicked /\ stack # <<>> /\ Top.f \in {"submit", "push", "drain"}
              /\ Top.pc = "wait" /\ IsErr(ret) /\ stack' # stack) =>
            /\ stack' = Pop(stack)
            /\ Returned = ret
            /\ UNCHANGED entries]_vars

\* Within a submit that met EBUSY, a callback has returned Err to a pass that
\* still sees a completion it has not popped.
C28_Witness ==
    /\ Running("pc", "wait")
    /\ IsErr(ret)
    /\ ret.src = "op"
    /\ ctxPopped < ctxTail
    /\ stack[1].f = "submit"

\* C29: drain never returns Err(ETIME): every step that ends a wait of drain
\* either starts the next pass over the completions, or returns at once, with
\* the table as it was, an error of the kernel other than ETIME.
C29_DrainTimeoutLoops ==
    /\ [](lastRet.api = "drain" =>
            ~(IsErr(lastRet.ret) /\ lastRet.ret.src = "kernel"
                /\ lastRet.ret.v = ETIME))
    /\ [][(Running("drain", "enter") /\ stack' # stack) =>
            \/ /\ stack' = Append(SetPc("wait"),
                                  Frame("pc", "loop", 0, TRUE, 0, FALSE, NoRet))
               /\ ctxPopped' = 0
               /\ ctxTail' = Len(cq')
            \/ /\ stack' = <<>>
               /\ IsErr(lastRet'.ret)
               /\ lastRet'.ret.src = "kernel"
               /\ lastRet'.ret.v # ETIME
               /\ UNCHANGED <<entries, ctxVars>>]_vars

\* drain waits with operations in flight, nothing to submit and no completion
\* to flush: the wait ends with ETIME unless a signal or a completion ends it.
C29_Witness ==
    /\ Running("drain", "enter")
    /\ sqPub = 0
    /\ CqFlushed = <<>>
    /\ inflight # {}
    /\ ~SlabIsEmpty(entries)

\* C30: the step of a pass that pops a completion invokes the callback of the
\* operation whose descriptor the kernel completed with it, with the
\* translation of that completion's result, and takes that operation out of
\* the table, also when the operation's key was held by another operation
\* before.
C30_ResultToItsOperation ==
    [][(Running("pc", "loop") /\ Len(stack') = Len(stack) + 1) =>
          LET cqe == cq[ctxPopped + 1]
              callee == stack'[Len(stack')]
          IN /\ callee.f = "complete"
             /\ callee.op = cqe.op
             /\ callee.res = Result(cqe.res)
             /\ ops[cqe.op].key = cqe.tag
             /\ ops[cqe.op].kres = <<cqe.res>>
             /\ SlabGet(entries, cqe.tag) = cqe.op
             /\ ~SlabContains(entries', cqe.tag)]_vars

\* The callback of an operation that failed is invoked; the operation held key
\* 0, which the first operation had held before it, and another operation is
\* in the table.
C30_Witness ==
    /\ Running("complete", "start")
    /\ Top.op >= 2
    /\ ops[Top.op].key = 0
    /\ IsErr(Top.res)
    /\ ops[1].done = 1
    /\ ~SlabIsEmpty(entries)

\* The steps the driving thread takes inside an engine call on the default
\* ring, once the call is made: the thread keeps running.
EngineNested ==
    \/ PushTryOk \/ PushTryFull \/ PushSubmitReturned
    \/ SubmitOk \/ SubmitBusy \/ SubmitPcReturned
    \/ PcNext \/ PcDone \/ PcCompleteReturned
    \/ CompleteHardLink \/ CompleteChain \/ CompleteChainReturned
    \/ CtxPushTryOk \/ CtxPushTryFull \/ CtxPushSubmitReturned
    \/ CtxSubmitOk \/ CtxSubmitBusy \/ CtxSubmitPcReturned

\* Callbacks that push follow-ups, with a thread that keeps running and a
\* kernel that completes every descriptor it has accepted.
SpecNestedFair ==
    /\ SpecNested
    /\ WF_vars(EngineNested)
    /\ WF_vars(KernelCompleteOk)

\* A callback is inside RingCtx::push.
CtxPushRunning == \E k \in DOMAIN stack : stack[k].f = "cpush"

\* C31: with a kernel that completes everything it accepted, a push made
\* through the context by a callback returns, and returns Ok, also when the
\* submission queue is full and the kernel answers EBUSY.
C31_CtxPushReturnsOk ==
    /\ CtxPushRunning ~> ~CtxPushRunning
    /\ [](\A i \in DOMAIN ops : ops[i].follow => ops[i].pushRet # "err")

\* C32: RingCtx::submit does on EBUSY what Ring::submit does: it starts a pass
\* whose view of the completion queue is synchronised with the kernel, so
\* that the pass invokes the callback of every completion the ring holds, in
\* the ring's order.
C32_CtxSubmitSameAsRing ==
    [][(InSubmit("enter") /\ KernelBusy(sqPub) /\ stack' # stack
           /\ stack' # SetPc("intr") /\ faults' = faults) =>
          /\ Len(stack') = Len(stack) + 1
          /\ stack'[Len(stack')].f = "pc"
          /\ ctxTail' = Len(cq')
          /\ UNCHANGED <<entries, sq, sqPub, inflight>>]_vars

\* A pass of a process_completions or drain call ends in this step with the
\* error of a callback.
PassAborts == Running("pc", "wait") /\ IsErr(ret) /\ Top.outer /\ stack' # stack

\* C33: when a callback's error ends a pass, the operation that failed has
\* left the table with its callback run once, and the completions the pass
\* had not popped are all still in the completion queue, in order, each with
\* its operation in the table and its callback not run; no callback ever runs
\* twice, and whenever a later drain has returned Ok every one has run once.
C33_AbortKeepsPending ==
    /\ [][PassAborts =>
            /\ cq' = SubSeq(cq, ctxPopped + 1, Len(cq))
            /\ overflow' = overflow
            /\ entries' = entries
            /\ ops[cq[ctxPopped].op].done = 1
            /\ ~SlabContains(entries, cq[ctxPopped].tag)
            /\ \A c \in Range(cq') \cup Range(overflow') :
                 /\ SlabContains(entries', c.tag)
                 /\ SlabGet(entries', c.tag) = c.op
                 /\ ops'[c.op].done = 0]_vars
    /\ [](\A i \in DOMAIN ops : ops[i].done <= 1)
    /\ [](\A c \in Range(Unpopped) \cup Range(overflow) :
            /\ SlabContains(entries, c.tag)
            /\ SlabGet(entries, c.tag) = c.op
            /\ ops[c.op].done = 0)
    /\ [](DrainReturnedOk => \A i \in DOMAIN ops : ops[i].done = 1)

\* A call has returned the error of a callback, which has run, and a
\* completion that was not popped waits in the completion queue.
C33_Witness ==
    /\ Idle
    /\ lastRet.api \in {"pc", "drain"}
    /\ IsErr(lastRet.ret)
    /\ lastRet.ret.src = "op"
    /\ cq # <<>>
    /\ \E i \in DOMAIN ops : ops[i].done = 1

\* Ring::submit_and_wait is running.
SawRunning == stack # <<>> /\ stack[1].f = "saw"

\* C34: no step of a submit_and_wait call invokes a callback or changes the
\* entries table, and no callback runs while the call runs; a completion that
\* arrives meanwhile stays in the completion queue, or held back, with its
\* operation in the table.
C34_SawLeavesTable ==
    /\ [][SawRunning =>
            /\ entries' = entries
            /\ \A i \in DOMAIN ops : ops'[i].done = ops[i].done
            /\ \A k \in DOMAIN stack' : stack'[k].f = "saw"
            /\ \A c \in Range(cq) \cup Range(overflow) :
                 c \in Range(cq') \cup Range(overflow')]_vars
    /\ [](SawRunning =>
            \A c \in Range(cq) \cup Range(overflow) :
                /\ SlabContains(entries, c.tag)
                /\ SlabGet(entries, c.tag) = c.op)

\* A submit_and_wait has returned Ok after a completion arrived while it
\* waited: the completion is in the queue and its operation in the table.
C34_Witness ==
    /\ lastRet.api = "saw"
    /\ lastRet.ret.t = "Ok"
    /\ cq # <<>>
    /\ \A c \in Range(cq) : SlabContains(entries, c.tag) /\ ops[c.op].done = 0
    /\ ~SlabIsEmpty(entries)

\* The request cannot be built: hard_link_abs with a path that is not
\* absolute, or any request with a path that holds an interior NUL byte.
Unbuildable(req) ==
    \/ req.api = "hard_link_abs" /\ (~req.old.absolute \/ ~req.new.absolute)
    \/ req.old.nul \/ req.new.nul

\* C35: a hard-link request that cannot be built returns an error and leaves
\* the entries table and the submission queue as they were; a request that
\* can be built is pushed.
C35_UnbuildablePushesNothing ==
    /\ [][(Running("link", "new") /\ stack' # stack) =>
            IF Unbuildable(request)
            THEN /\ stack' = <<>>
                 /\ lastRet'.api = "link"
                 /\ IsErr(lastRet'.ret)
                 /\ UNCHANGED <<entries, sq, sqPub, inflight, ops>>
            ELSE /\ Len(ops') = Len(ops) + 1
                 /\ stack'[1].f = "push"]_vars
    /\ [](lastRet.api = "link" => IsErr(lastRet.ret) /\ Unbuildable(request))

\* hard_link_abs has returned an error for absolute paths of which one holds
\* a NUL byte, while earlier operations are in the table and one is queued.
C35_Witness ==
    /\ lastRet.api = "link"
    /\ lastRet.ret = ErrNul
    /\ request.api = "hard_link_abs"
    /\ request.old.absolute /\ request.new.absolute
    /\ ~SlabIsEmpty(entries)
    /\ sq # <<>>


\* The complete entries the reader yields before its end or its error.
Yielded(reader) ==
    (IF reader.failAt >= 0 THEN reader.failAt ELSE reader.size) \div EntrySize

\* C36: scan_file applies user_fn once to each complete entry the reader
\* yields, in file order, and returns Ok exactly when the reader yields
\* num_entries_expected complete entries and then ends; with fewer or more
\* entries, or with a read error other than the end of the file, it returns
\* Err.
C36_ScanAppliesEachEntryOnce ==
    /\ scan.pc # "idle" =>
         /\ Len(scan.applied) <= Yielded(scan.reader)
         /\ \A i \in DOMAIN scan.applied : scan.applied[i] = i
    /\ scan.pc = "done" =>
         /\ scan.applied = [i \in 1..Yielded(scan.reader) |-> i]
         /\ scan.ret = OkRet(0) <=>
              /\ scan.reader.failAt = -1
              /\ Yielded(scan.reader) = scan.num_entries_expected
         /\ scan.ret # OkRet(0) => IsErr(scan.ret)

\* scan_file has returned Ok for a file of two entries and a partial third
\* one, after applying user_fn to both.
C36_Witness ==
    /\ scan.pc = "done"
    /\ scan.ret = OkRet(0)
    /\ scan.applied = <<1, 2>>
    /\ scan.reader.size = 2 * EntrySize + 1


\* How often x occurs in the sequence s.
Occurrences(s, x) == Cardinality({ k \in DOMAIN s : s[k] = x })

\* C37: when do_diff_dirs has left its merge, every file is classified once:
\* a file is in its directory's uniques exactly when the other directory has
\* no file of the same slot range, every pair of files of equal slot ranges
\* was compared once, and the mismatches are the compared pairs that are not
\* equal.
C37_MergeClassifiesEachFile ==
    diff.pc = "done" =>
        /\ \A i \in DOMAIN diff.files1 :
             /\ Occurrences(diff.uniques1, i) <= 1
             /\ Occurrences(diff.uniques1, i) = 1 <=>
                  \A j \in DOMAIN diff.files2 :
                      RangeCmp(diff.files1[i], diff.files2[j]) # "Equal"
        /\ \A j \in DOMAIN diff.files2 :
             /\ Occurrences(diff.uniques2, j) <= 1
             /\ Occurrences(diff.uniques2, j) = 1 <=>
                  \A i \in DOMAIN diff.files1 :
                      RangeCmp(diff.files1[i], diff.files2[j]) # "Equal"
        /\ \A i \in DOMAIN diff.files1, j \in DOMAIN diff.files2 :
             /\ Occurrences(diff.compared, <<i, j>>) =
                  IF RangeCmp(diff.files1[i], diff.files2[j]) = "Equal"
                  THEN 1 ELSE 0
             /\ Occurrences(diff.mismatches, <<i, j>>) =
                  IF /\ RangeCmp(diff.files1[i], diff.files2[j]) = "Equal"
                     /\ ~IsEqual(diff.files1[i], diff.files2[j])
                  THEN 1 ELSE 0

====
